---- MODULE Spec2Model ----
(***************************************************************************)
(* Model of models.py: the observation link (observe / _observe_normal),   *)
(* the exponentiated random walk, the single-region and hierarchical SEIR  *)
(* generative models and plot_samples, run against a trace-recording       *)
(* sampling host and an ODE compartment component.                         *)
(***************************************************************************)
EXTENDS Integers, Sequences, FiniteSets, TLC

(***************************************************************************)
(* Floating-point values.  A finite value is the exact rational n/d with   *)
(* d > 0 in lowest terms; d = 0 marks the non-finite values: NaN (n = 0),  *)
(* +inf (n = 1) and -inf (n = -1).                                         *)
(***************************************************************************)
Abs(i) == IF i < 0 THEN -i ELSE i

RECURSIVE GCD(_, _)
GCD(a, b) == IF b = 0 THEN a ELSE GCD(b, a % b)

Norm(n, d) ==
    LET s == IF d < 0 THEN -1 ELSE 1
        g == GCD(Abs(n), Abs(d))
    IN  [n |-> (s * n) \div g, d |-> (s * d) \div g]

NaN == [n |-> 0, d |-> 0]
PosInf == [n |-> 1, d |-> 0]
NegInf == [n |-> -1, d |-> 0]

Sign(i) == IF i < 0 THEN -1 ELSE IF i > 0 THEN 1 ELSE 0

I2F(i) == [n |-> i, d |-> 1]

IsFinite(v) == v.d # 0

FAdd(a, b) ==
    IF a.d = 0 THEN (IF b.d = 0 /\ b # a THEN NaN ELSE a)
    ELSE IF b.d = 0 THEN b
    ELSE Norm(a.n * b.d + b.n * a.d, a.d * b.d)

FNeg(a) == [n |-> -a.n, d |-> a.d]

FSub(a, b) == FAdd(a, FNeg(b))

FMul(a, b) ==
    IF a.d = 0 \/ b.d = 0
    THEN (IF a.n = 0 \/ b.n = 0 THEN NaN
          ELSE [n |-> Sign(a.n) * Sign(b.n), d |-> 0])
    ELSE Norm(a.n * b.n, a.d * b.d)

FDiv(a, b) ==
    IF a.d = 0 THEN (IF b.d = 0 THEN NaN
                     ELSE [n |-> a.n * (IF b.n < 0 THEN -1 ELSE 1), d |-> 0])
    ELSE IF b.d = 0 THEN (IF b.n = 0 THEN NaN ELSE I2F(0))
    ELSE IF b.n = 0 THEN [n |-> Sign(a.n), d |-> 0]
    ELSE Norm(a.n * b.d, a.d * b.n)

\* a <= b; false whenever a NaN takes part, as for IEEE comparisons
FLe(a, b) ==
    IF a = NaN \/ b = NaN THEN FALSE
    ELSE IF a.d = 0 THEN (a.n = -1 \/ a = b)
    ELSE IF b.d = 0 THEN b.n = 1
    ELSE a.n * b.d <= b.n * a.d

FMax(a, b) == IF FLe(a, b) THEN b ELSE a

FFloor(a) == a.n \div a.d

(***************************************************************************)
(* Positive reals m * exp(e), with m a positive rational and e a rational: *)
(* the values of the Gamma priors and of the exponentiated walk.  The      *)
(* logarithm of m * exp(e) is the log-domain value ln(m) + e, written      *)
(* [lg |-> m, add |-> e].  Both forms are canonical: e is transcendental,  *)
(* so two of them denote the same real only when they are equal.           *)
(***************************************************************************)
Pos(m, e) == [m |-> m, e |-> e]

Log(p) == [lg |-> p.m, add |-> p.e]

Exp(l) == [m |-> l.lg, e |-> l.add]

LAdd(l, f) == [lg |-> l.lg, add |-> FAdd(l.add, f)]

PMul(p, q) == [m |-> FMul(p.m, q.m), e |-> FAdd(p.e, q.e)]

PInv(p) == [m |-> FDiv(I2F(1), p.m), e |-> FNeg(p.e)]

PScale(p, f) == [m |-> FMul(p.m, f), e |-> p.e]

(***************************************************************************)
(* Evaluation order.  Let(v, F) is F(v) with v computed once, as an        *)
(* assignment to a local computes its right-hand side once.                *)
(***************************************************************************)
Let(v, F(_)) == CHOOSE r \in {F(x) : x \in {v}} : TRUE

\* the sequence f with every element computed
Tuple(f) == Tail(<<0>> \o f)

(***************************************************************************)
(* Arrays: a shape and the elements in row-major order.  A scalar has the  *)
(* empty shape.  Indices are 0-based, as in the source.                    *)
(***************************************************************************)
RECURSIVE Prod(_)
Prod(s) == IF s = <<>> THEN 1 ELSE Head(s) * Prod(Tail(s))

\* an array of shape s whose element at flat position k (from 1) is el(k)
MkArr(s, el(_)) == [shape |-> s, data |-> Tuple([k \in 1..Prod(s) |-> el(k)])]

Size(a) == Prod(a.shape)

Rank(a) == Len(a.shape)

Scalar(v) == [shape |-> <<>>, data |-> <<v>>]

Vec(s) == [shape |-> <<Len(s)>>, data |-> s]

Item(a) == a.data[1]

\* the multi-index of flat position k (0-based) in an array of shape s
RECURSIVE Unravel(_, _)
Unravel(k, s) ==
    IF s = <<>> THEN <<>>
    ELSE <<k \div Prod(Tail(s))>> \o Unravel(k % Prod(Tail(s)), Tail(s))

RECURSIVE Ravel(_, _)
Ravel(idx, s) ==
    IF s = <<>> THEN 0
    ELSE Head(idx) * Prod(Tail(s)) + Ravel(Tail(idx), Tail(s))

At(a, idx) == a.data[Ravel(idx, a.shape) + 1]

SetAxis(s, axis, n) == [s EXCEPT ![axis + 1] = n]

\* a[..., idxs, ...]: the listed positions along one axis, the axis kept
Take(a0, axis, idxs0) ==
    Let(a0, LAMBDA a : Let(idxs0, LAMBDA idxs :
    Let(SetAxis(a.shape, axis, Len(idxs)), LAMBDA s :
      MkArr(s, LAMBDA k :
        Let(Unravel(k - 1, s), LAMBDA i :
          At(a, SetAxis(i, axis, idxs[i[axis + 1] + 1])))))))

DropAxis(s, axis) ==
    Tuple([j \in 1..(Len(s) - 1) |-> IF j <= axis THEN s[j] ELSE s[j + 1]])

\* a[..., i, ...]: one position along an axis, the axis removed; i < 0 counts from the end
Index(a0, axis, i) ==
    Let(a0, LAMBDA a :
      [shape |-> DropAxis(a.shape, axis),
       data |-> Take(a, axis, <<IF i < 0 THEN a.shape[axis + 1] + i ELSE i>>).data])

\* a[..., from:, ...]
SliceFrom(a0, axis, from) ==
    Let(a0, LAMBDA a :
      Take(a, axis, Tuple([j \in 1..(a.shape[axis + 1] - from) |-> from + j - 1])))

\* a[..., :to, ...], to clipped to the axis length
SliceTo(a0, axis, to) ==
    Let(a0, LAMBDA a :
      Take(a, axis,
           Tuple([j \in 1..(IF to < a.shape[axis + 1] THEN to ELSE a.shape[axis + 1])
                    |-> j - 1])))

\* a[..., None, ...]: a new axis of length 1 at position axis
NewAxis(a0, axis) ==
    Let(a0, LAMBDA a :
      [shape |-> Tuple([j \in 1..(Len(a.shape) + 1) |->
                          IF j <= axis THEN a.shape[j]
                          ELSE IF j = axis + 1 THEN 1 ELSE a.shape[j - 1]]),
       data |-> a.data])

Concatenate(a0, b0, axis) ==
    Let(a0, LAMBDA a : Let(b0, LAMBDA b :
    Let(SetAxis(a.shape, axis, a.shape[axis + 1] + b.shape[axis + 1]), LAMBDA s :
      MkArr(s, LAMBDA k :
        Let(Unravel(k - 1, s), LAMBDA i :
          IF i[axis + 1] < a.shape[axis + 1] THEN At(a, i)
          ELSE At(b, SetAxis(i, axis, i[axis + 1] - a.shape[axis + 1])))))))

\* np.vstack of two arrays: 1-d operands become rows
AtLeast2d(a0) ==
    Let(a0, LAMBDA a :
      IF Rank(a) < 2 THEN [shape |-> <<1, Size(a)>>, data |-> a.data] ELSE a)

VStack(a, b) == Concatenate(AtLeast2d(a), AtLeast2d(b), 0)

\* the operands appended in the opposite order
NpAppendFront(a0, b0) == [shape |-> <<Size(a0) + Size(b0)>>, data |-> b0.data \o a0.data]

\* np.append without an axis: both operands flattened
NpAppend(a0, b0) ==
    Let(a0, LAMBDA a : Let(b0, LAMBDA b :
      [shape |-> <<Size(a) + Size(b)>>, data |-> a.data \o b.data]))

\* numpy broadcasting of shapes aligned at the trailing axis
PadShape(s, r) ==
    Tuple([j \in 1..r |-> IF j <= r - Len(s) THEN 1 ELSE s[j - (r - Len(s))]])

BroadcastShape(s0, t0) ==
    Let(s0, LAMBDA s : Let(t0, LAMBDA t :
    Let(IF Len(s) < Len(t) THEN Len(t) ELSE Len(s), LAMBDA r :
      Tuple([j \in 1..r |-> IF PadShape(s, r)[j] = 1 THEN PadShape(t, r)[j]
                            ELSE PadShape(s, r)[j]]))))

\* the element of a at flat position k (from 1) of its broadcast to shape s
BroadcastAt(a, s, k) ==
    Let(PadShape(a.shape, Len(s)), LAMBDA pa :
    Let(Unravel(k - 1, s), LAMBDA i :
      a.data[Ravel(Tuple([j \in 1..Len(s) |-> IF pa[j] = 1 THEN 0 ELSE i[j]]), pa) + 1]))

BroadcastTo(a0, s0) ==
    Let(a0, LAMBDA a : Let(s0, LAMBDA s : MkArr(s, LAMBDA k : BroadcastAt(a, s, k))))

Map1(a0, f(_)) == Let(a0, LAMBDA a : MkArr(a.shape, LAMBDA k : f(a.data[k])))

Map2(a0, b0, f(_, _)) ==
    Let(a0, LAMBDA a : Let(b0, LAMBDA b :
    Let(BroadcastShape(a.shape, b.shape), LAMBDA s :
      MkArr(s, LAMBDA k : f(BroadcastAt(a, s, k), BroadcastAt(b, s, k))))))

AAdd(a, b) == Map2(a, b, FAdd)
AMul(a, b) == Map2(a, b, FMul)
ADiv(a, b) == Map2(a, b, FDiv)

NpIsFinite(a) == Map1(a, IsFinite)

NpWhere(m0, a0, b0) ==
    Let(m0, LAMBDA m : Let(a0, LAMBDA a : Let(b0, LAMBDA b :
    Let(BroadcastShape(m.shape, BroadcastShape(a.shape, b.shape)), LAMBDA s :
      MkArr(s, LAMBDA k : IF BroadcastAt(m, s, k) THEN BroadcastAt(a, s, k)
                          ELSE BroadcastAt(b, s, k))))))

ZerosLike(a0) == Let(a0, LAMBDA a : MkArr(a.shape, LAMBDA k : I2F(0)))

(***************************************************************************)
(* Distributions (numpyro.distributions), as records of their parameters.  *)
(***************************************************************************)
DistUniform(low, high) == [family |-> "Uniform", low |-> low, high |-> high]

DistGamma(shape, rate) == [family |-> "Gamma", shape |-> shape, rate |-> rate]

DistBeta(a, b) == [family |-> "Beta", a |-> a, b |-> b]

DistNormal(loc, scale) == [family |-> "Normal", loc |-> loc, scale |-> scale]

DistGaussianRandomWalk(scale, num_steps) ==
    [family |-> "GaussianRandomWalk", scale |-> scale, num_steps |-> num_steps]

\* np.arange(n, dtype='float32')
Arange(n) == Vec(Tuple([t \in 1..n |-> I2F(t - 1)]))

\* np.cumsum(a, axis=-1)
RECURSIVE SumTo(_, _, _)
SumTo(data, from, to) ==
    IF to < from THEN I2F(0) ELSE FAdd(SumTo(data, from, to - 1), data[to])

CumSumLast(a0) ==
    Let(a0, LAMBDA a :
      MkArr(a.shape, LAMBDA k :
        SumTo(a.data, k - ((k - 1) % a.shape[Len(a.shape)]), k)))

\* log_loc = np.log(loc) + drift * np.arange(num_steps)
LogLoc(loc, drift, num_steps) ==
    Map2(loc, Arange(num_steps), LAMBDA p, t : LAdd(Log(p), FMul(drift, t)))

\* ExponentialRandomWalk: the exponential of log_loc + a Gaussian random walk
ExponentialRandomWalk(loc, scale, drift, num_steps) ==
    [family |-> "ExponentialRandomWalk",
     base |-> DistGaussianRandomWalk(scale, num_steps),
     log_loc |-> LogLoc(loc, drift, num_steps)]

\* GaussianRandomWalk.sample: the running sum of the standard-normal draws z, times scale
GaussianRandomWalkSample(d, z) ==
    Map1(CumSumLast(z), LAMBDA g : FMul(g, d.scale))

\* TransformedDistribution.sample: AffineTransform(loc = log_loc, scale = 1), then ExpTransform
ExponentialRandomWalkSample(d, z) ==
    Map2(d.log_loc, GaussianRandomWalkSample(d.base, z),
         LAMBDA l, g : Exp(LAdd(l, FMul(I2F(1), g))))

\* the shape of one draw
DrawShape(d) ==
    IF d.family = "ExponentialRandomWalk" THEN d.log_loc.shape
    ELSE IF d.family = "Normal" THEN BroadcastShape(d.loc.shape, d.scale.shape)
    ELSE IF d.family = "Uniform" THEN BroadcastShape(d.low.shape, d.high.shape)
    ELSE IF d.family = "Gamma" THEN BroadcastShape(d.shape.shape, d.rate.shape)
    ELSE BroadcastShape(d.a.shape, d.b.shape)

(***************************************************************************)
(* The sampling host.  Its randomness is a seed: the standard draw it      *)
(* hands to element k of the site called name depends on the seed, the     *)
(* name and k alone.  A draw is turned into a value of the distribution's  *)
(* support: loc + scale * z for Normal, a quartile of the interval for     *)
(* Uniform, the mean halved, kept or doubled for Gamma, the mean moved     *)
(* half-way to 0 or to 1 for Beta.  A site is recorded with its name, its  *)
(* type, its value, whether it was observed, its mask and distribution.    *)
(***************************************************************************)
SiteCode(name) ==
    CASE name = "I0" -> 1 [] name = "E0" -> 2 [] name = "sigma" -> 3
      [] name = "gamma" -> 4 [] name = "beta0" -> 5 [] name = "det_rate" -> 6
      [] name = "hosp_rate" -> 7 [] name = "drift" -> 8 [] name = "y0" -> 9
      [] name = "z0" -> 10 [] name = "beta" -> 11 [] name = "y" -> 12
      [] name = "z" -> 13 [] name = "beta_future" -> 14 [] name = "y_future" -> 15
      [] name = "z_future" -> 16 [] name = "bias_R0" -> 17
      [] name = "bias_E_duration" -> 18 [] name = "bias_I_duration" -> 19
      [] name = "bias_det_rate" -> 20 [] name = "theta_R0" -> 21
      [] name = "theta_E_duration" -> 22 [] name = "theta_I_duration" -> 23
      [] name = "theta_det_rate" -> 24 [] name = "R0" -> 25
      [] name = "E_duration" -> 26 [] name = "I_duration" -> 27
      [] OTHER -> 0

HostZ(seed, name, k) == ((seed * (SiteCode(name) + 2 * k) + k) % 3) - 1

HostNoise(seed, name, shape) == MkArr(shape, LAMBDA k : I2F(HostZ(seed, name, k)))

\* the rate a positive real m * exp(e) stands for, to first order in e
Rate(p) == FMax(I2F(0), FMul(p.m, FAdd(I2F(1), p.e)))

Pow2(w) == IF w.n < 0 THEN Norm(1, 2) ELSE IF w.n > 0 THEN I2F(2) ELSE I2F(1)

BetaShift(p, w) ==
    IF w.n < 0 THEN FMul(p, Norm(1, 2))
    ELSE IF w.n > 0 THEN FMul(FAdd(p, I2F(1)), Norm(1, 2))
    ELSE p

HostDraw(d, z) ==
    IF d.family = "ExponentialRandomWalk" THEN ExponentialRandomWalkSample(d, z)
    ELSE IF d.family = "Normal" THEN AAdd(d.loc, AMul(d.scale, z))
    ELSE IF d.family = "Uniform"
    THEN AAdd(d.low, AMul(AAdd(d.high, Map1(d.low, FNeg)),
                          Map1(z, LAMBDA w : Norm(w.n + 2, 4))))
    ELSE IF d.family = "Gamma"
    THEN Map2(Map2(d.shape, d.rate, LAMBDA s, r : PMul(s, PInv(r))), z,
              LAMBDA m, w : PScale(m, Pow2(w)))
    ELSE IF d.family = "BetaOdds"
    THEN Map2(Map1(d.a, LAMBDA o : FDiv(Rate(o), FAdd(I2F(1), Rate(o)))), z, BetaShift)
    ELSE Map2(Map2(d.a, d.b, LAMBDA a, b : FDiv(a, FAdd(a, b))), z, BetaShift)

NoDist == [family |-> "none"]

NoMask == Scalar(TRUE)

\* numpyro.deterministic(name, value)
Deterministic(tr, name, value) ==
    Append(tr, [name |-> name, type |-> "deterministic", value |-> value,
                is_observed |-> FALSE, mask |-> NoMask, fn |-> NoDist])

\* numpyro.sample(name, fn, obs, sample_shape) inside numpyro.handlers.mask(mask);
\* obs is <<>> for None
SampleShaped(tr, seed, name, fn0, obs0, mask, shape) ==
    Let(fn0, LAMBDA fn : Let(obs0, LAMBDA obs :
      Append(tr, [name |-> name, type |-> "sample",
                  value |-> IF obs = <<>> THEN HostDraw(fn, HostNoise(seed, name, shape))
                            ELSE obs[1],
                  is_observed |-> obs # <<>>, mask |-> mask, fn |-> fn])))

Sample(tr, seed, name, fn0, obs, mask) ==
    Let(fn0, LAMBDA fn : SampleShaped(tr, seed, name, fn, obs, mask, DrawShape(fn)))

\* the value the latest host call returned
Last(tr0) == Let(tr0, LAMBDA tr : tr[Len(tr)].value)

\* The score of an observation site: per element, the Normal log-density of the
\* value, which its squared standardised residual and its scale determine, where
\* the mask holds, and 0 where it does not.
NormalLogProb(v, loc, scale) ==
    [on |-> TRUE, z2 |-> FMul(FDiv(FSub(v, loc), scale), FDiv(FSub(v, loc), scale)),
     scale |-> scale]

ZeroLogProb == [on |-> FALSE, z2 |-> I2F(0), scale |-> I2F(0)]

SiteScore(site0) ==
    Let(site0, LAMBDA site :
    Let(BroadcastShape(site.value.shape, DrawShape(site.fn)), LAMBDA s :
      MkArr(s, LAMBDA k :
        IF BroadcastAt(site.mask, s, k)
        THEN NormalLogProb(BroadcastAt(site.value, s, k), BroadcastAt(site.fn.loc, s, k),
                           BroadcastAt(site.fn.scale, s, k))
        ELSE ZeroLogProb)))

(***************************************************************************)
(* The observation link.                                                   *)
(***************************************************************************)
reg == Norm(1, 2)

\* a mask that only tests for NaN, as np.isnan would
ObsMaskNotNan(obs) == Map1(obs, LAMBDA v : v # NaN)

\* mask = np.isfinite(obs)
ObsMask(obs) == NpIsFinite(obs)

\* obs = np.where(mask, obs, 0.0); obs += reg
ObsRegularized(mask, obs) == AAdd(NpWhere(mask, obs, Scalar(I2F(0))), Scalar(reg))

\* the mean without the regularizer
ObsMeanUnregularized(latent, det_rate) ==
    AMul(BroadcastTo(det_rate, latent.shape), latent)

\* latent = latent + (reg/det_rate); mean = det_rate * latent, det_rate broadcast
ObsMean(latent, det_rate) ==
    Let(AAdd(latent, ADiv(Scalar(reg), det_rate)), LAMBDA latent1 :
      AMul(BroadcastTo(det_rate, latent1.shape), latent1))

\* scale = det_noise_scale * mean + 1
ObsScale(det_noise_scale, mean) == AAdd(AMul(det_noise_scale, mean), Scalar(I2F(1)))

_observe_normal(tr, seed, name, latent, det_rate, det_noise_scale, obs0) ==
    Let(obs0, LAMBDA obs :
    Let(IF obs = <<>> THEN NoMask ELSE ObsMask(obs[1]), LAMBDA mask :
    Let(ObsMean(latent, det_rate), LAMBDA mean :
      Sample(Deterministic(tr, "mean_" \o name, mean), seed, name,
             DistNormal(mean, ObsScale(det_noise_scale, mean)),
             IF obs = <<>> THEN <<>> ELSE <<ObsRegularized(mask, obs[1])>>,
             mask))))

observe(tr, seed, name, latent, det_rate, det_noise_scale, obs) ==
    _observe_normal(tr, seed, name, latent, det_rate, det_noise_scale, obs)

(***************************************************************************)
(* The ODE compartment component (compartment.SEIRModel).  A state is      *)
(* (S, E, I, R, C).  seed places the initial infectious and exposed; run   *)
(* returns num_steps rows, the first being the initial state, each next    *)
(* one a unit step of the SEIR flows in whole counts.                      *)
(***************************************************************************)
SEIRModel_seed(N, I, E) ==
    Vec(<<FSub(FSub(N, E), I), E, I, I2F(0), I>>)

FlowCap(amount, pool) ==
    Let(I2F(FFloor(amount)), LAMBDA f : IF FLe(pool, f) THEN pool ELSE f)

SEIRFlows(x, beta, sigma, gamma) ==
    [inf |-> FlowCap(FDiv(FMul(Rate(beta), FMul(x[1], x[3])),
                          FAdd(FAdd(x[1], x[2]), FAdd(x[3], x[4]))), x[1]),
     prog |-> FlowCap(FMul(Rate(sigma), x[2]), x[2]),
     rem |-> FlowCap(FMul(Rate(gamma), x[3]), x[3])]

SEIRStep(x, beta, sigma, gamma) ==
    Let(SEIRFlows(x, beta, sigma, gamma), LAMBDA f :
      <<FSub(x[1], f.inf), FSub(FAdd(x[2], f.inf), f.prog),
        FSub(FAdd(x[3], f.prog), f.rem), FAdd(x[4], f.rem), FAdd(x[5], f.prog)>>)

RECURSIVE SEIRRows(_, _, _, _, _)
SEIRRows(n, x0, beta, sigma, gamma) ==
    IF n = 1 THEN <<x0>>
    ELSE Let(SEIRRows(n - 1, x0, beta, sigma, gamma), LAMBDA prev :
           Append(prev, SEIRStep(prev[n - 1], beta[n - 1], sigma, gamma)))

RECURSIVE Flatten(_)
Flatten(rows) == IF rows = <<>> THEN <<>> ELSE Head(rows) \o Flatten(Tail(rows))

SEIRModel_run(T, x0, beta, sigma, gamma) ==
    Let(x0, LAMBDA v : Let(beta, LAMBDA b : Let(sigma, LAMBDA s : Let(gamma, LAMBDA g :
      [shape |-> <<T, 5>>,
       data |-> Flatten(SEIRRows(T, v.data, b.data, Item(s), Item(g)))]))))

(***************************************************************************)
(* The single-region model.                                                *)
(***************************************************************************)
E_duration_est == 4
I_duration_est == 2
R0_est == 3
beta_shape == 1
sigma_shape == 5
gamma_shape == 5
det_rate_est == Norm(3, 10)
det_rate_conc == 50
rw_scale == Norm(1, 10)
hosp_rate_est == Norm(15, 100)
hosp_rate_conc == 30
hosp_noise_scale == Norm(3, 10)

PosScalar(i) == Scalar(Pos(I2F(i), I2F(0)))

\* dist.Beta(est * conc, (1 - est) * conc)
BetaPrior(est, conc) ==
    DistBeta(Scalar(FMul(est, I2F(conc))), Scalar(FMul(FSub(I2F(1), est), I2F(conc))))

\* dist.Uniform(0, 0.02 * N)
SeedPrior(N) == DistUniform(Scalar(I2F(0)), AMul(Scalar(Norm(2, 100)), N))

\* a forecast segment started from the first row
ForecastStartFirst(x) == Index(x, 0, 0)

\* the initial state a forecast segment starts from: the last row so far
ForecastStart(x) == Index(x, 0, -1)

\* the observations a forecast segment is conditioned on: none
ForecastObs == <<>>

\* obs[:-1] in place of obs[1:]: each observation moved one step early
RestUnshifted(obs) ==
    IF obs = <<>> THEN <<>> ELSE <<SliceTo(obs[1], 0, obs[1].shape[1] - 1)>>

\* obs[0] and obs[1:] of an optional array
First(obs) == IF obs = <<>> THEN <<>> ELSE <<Index(obs[1], 0, 0)>>

Rest(obs) == IF obs = <<>> THEN <<>> ELSE <<SliceFrom(obs[1], 0, 1)>>

\* the run kept whole
DropFirstKept(x) == x

\* x = x[1:]: the first row of the run duplicates x0
DropFirst(x) == SliceFrom(x, 0, 1)

\* the number of steps of a segment's random walk
WalkSteps(T) == T - 1

\* a segment's sites named by the field alone
SiteNameBare(field, suffix) == field

\* "x" + suffix and its kin
SiteName(field, suffix) == field \o suffix

\* the confirmed-case values in place of zeros
NoHospCopy(y) == y

\* z = np.zeros_like(y) when the hospitalization sub-model is off
NoHosp(y) == ZerosLike(y)

SEIR_dynamics(tr, seed, T, params, x0, obs, hosp, use_hosp, suffix) ==
    Let(Sample(tr, seed, SiteName("beta", suffix),
               ExponentialRandomWalk(params.beta0, params.rw_scale,
                                     Item(params.drift), WalkSteps(T)),
               <<>>, NoMask), LAMBDA tr1 :
    Let(DropFirst(SEIRModel_run(T, x0, Last(tr1), params.sigma, params.gamma)), LAMBDA x :
    Let(observe(Deterministic(tr1, SiteName("x", suffix), x), seed, SiteName("y", suffix),
                Index(x, 1, 4), params.det_rate, params.det_noise_scale, obs), LAMBDA tr3 :
    Let(IF use_hosp
        THEN observe(tr3, seed, SiteName("z", suffix), Index(x, 1, 4), params.hosp_rate,
                     params.hosp_noise_scale, hosp)
        ELSE tr3, LAMBDA tr4 :
      [tr |-> tr4, beta |-> Last(tr1), x |-> x, y |-> Last(tr3),
       z |-> IF use_hosp THEN Last(tr4) ELSE NoHosp(Last(tr3))]))))

\* the hospitalization rate and its site
HospRate(tr, seed, use_hosp, det_rate) ==
    IF use_hosp
    THEN Let(Sample(tr, seed, "hosp_rate", BetaPrior(hosp_rate_est, hosp_rate_conc),
                    <<>>, NoMask), LAMBDA tr1 :
           [tr |-> tr1, hosp_rate |-> AMul(det_rate, Last(tr1))])
    ELSE [tr |-> tr, hosp_rate |-> Scalar(I2F(0))]

\* the drift and its site
Drift(tr, seed, drift_scale) ==
    IF drift_scale # <<>>
    THEN Let(Sample(tr, seed, "drift",
                    DistNormal(Scalar(I2F(0)), Scalar(drift_scale[1])), <<>>, NoMask),
             LAMBDA tr1 : [tr |-> tr1, drift |-> Last(tr1)])
    ELSE [tr |-> tr, drift |-> Scalar(I2F(0))]

\* the sites up to the seeded state, and the parameters drawn
SEIR_prior(seed, a) ==
    Let(Sample(<<>>, seed, "I0", SeedPrior(Scalar(a.N)), <<>>, NoMask), LAMBDA tr1 :
    Let(Sample(tr1, seed, "E0", SeedPrior(Scalar(a.N)), <<>>, NoMask), LAMBDA tr2 :
    Let(Sample(tr2, seed, "sigma",
               DistGamma(PosScalar(sigma_shape), PosScalar(sigma_shape * E_duration_est)),
               <<>>, NoMask), LAMBDA tr3 :
    Let(Sample(tr3, seed, "gamma",
               DistGamma(PosScalar(gamma_shape), PosScalar(gamma_shape * I_duration_est)),
               <<>>, NoMask), LAMBDA tr4 :
    Let(Sample(tr4, seed, "beta0",
               DistGamma(PosScalar(beta_shape),
                         Scalar(Pos(Norm(beta_shape * I_duration_est, R0_est), I2F(0)))),
               <<>>, NoMask), LAMBDA tr5 :
    Let(Sample(tr5, seed, "det_rate", BetaPrior(det_rate_est, det_rate_conc),
               <<>>, NoMask), LAMBDA tr6 :
    Let(HospRate(tr6, seed, a.use_hosp, Last(tr6)), LAMBDA h :
    Let(Drift(h.tr, seed, a.drift_scale), LAMBDA d :
    Let(SEIRModel_seed(a.N, Item(Last(tr1)), Item(Last(tr2))), LAMBDA x0 :
      [tr |-> Deterministic(d.tr, "x0", x0), x0 |-> x0,
       params |-> [beta0 |-> Last(tr5), sigma |-> Last(tr3), gamma |-> Last(tr4),
                   rw_scale |-> rw_scale, drift |-> d.drift,
                   det_rate |-> Last(tr6),
                   det_noise_scale |-> Scalar(a.det_noise_scale),
                   hosp_rate |-> h.hosp_rate,
                   hosp_noise_scale |-> Scalar(hosp_noise_scale)]])))))))))

\* the seed-time observations y0 and z0
SEIR_first(seed, a, pr) ==
    Let(observe(pr.tr, seed, "y0", Index(pr.x0, 0, 4), pr.params.det_rate,
                pr.params.det_noise_scale, First(a.obs)), LAMBDA tr1 :
    Let(IF a.use_hosp
        THEN observe(tr1, seed, "z0", Index(pr.x0, 0, 4), pr.params.hosp_rate,
                     pr.params.hosp_noise_scale, First(a.hosp))
        ELSE tr1, LAMBDA tr2 :
      [tr |-> tr2, y0 |-> Last(tr1),
       z0 |-> IF a.use_hosp THEN Last(tr2) ELSE Scalar(I2F(0))]))

\* the historical segment, stitched behind the seed-time values
SEIR_history(seed, a, pr, o) ==
    Let(SEIR_dynamics(o.tr, seed, a.T, pr.params, pr.x0, Rest(a.obs),
                      IF a.use_hosp THEN Rest(a.hosp) ELSE a.hosp, a.use_hosp, ""),
        LAMBDA h :
      [tr |-> h.tr, beta |-> h.beta, x |-> VStack(pr.x0, h.x),
       y |-> NpAppend(o.y0, h.y), z |-> NpAppend(o.z0, h.z)])

\* the forecast segment, appended
SEIR_forecast(seed, a, pr, h) ==
    Let(SEIR_dynamics(h.tr, seed, a.T_future + 1,
                      [pr.params EXCEPT !.beta0 = Index(h.beta, 0, -1)],
                      ForecastStart(h.x), ForecastObs, ForecastObs, a.use_hosp, "_future"),
        LAMBDA f :
      [tr |-> f.tr, beta |-> h.beta, x |-> VStack(h.x, f.x),
       y |-> NpAppend(h.y, f.y), z |-> NpAppend(h.z, f.z)])

SEIR_stochastic(seed, a0) ==
    Let(a0, LAMBDA a :
    Let(SEIR_prior(seed, a), LAMBDA pr :
    Let(SEIR_history(seed, a, pr, SEIR_first(seed, a, pr)), LAMBDA h :
    Let(IF a.T_future > 0 THEN SEIR_forecast(seed, a, pr, h) ELSE h, LAMBDA r :
      [tr |-> r.tr,
       ret |-> [beta |-> r.beta, x |-> r.x, y |-> r.y, z |-> r.z,
                det_rate |-> pr.params.det_rate,
                hosp_rate |-> pr.params.hosp_rate]]))))

(***************************************************************************)
(* The hierarchical model.  expit(l) = o / (1 + o) for the odds o = exp(l) *)
(* is no rational multiple of a power of e, so the Beta prior of the       *)
(* detection rate is recorded by its mean's odds and its concentration.    *)
(***************************************************************************)
h_E_duration_est == Norm(45, 10)
h_I_duration_est == Norm(3, 1)
h_R0_est == Norm(45, 10)
det_scale == Norm(2, 10)

GammaMeanVar(mu, var) ==
    Let(Map1(mu, LAMBDA m : PScale(PMul(m, m), FDiv(I2F(1), var))), LAMBDA shape :
      DistGamma(shape, Map2(shape, mu, LAMBDA s, m : PMul(s, PInv(m)))))

DistBetaOdds(odds, conc) == [family |-> "BetaOdds", a |-> odds, b |-> Scalar(conc)]

\* np.dot(X, theta) for a matrix X and a vector theta
RECURSIVE DotRow(_, _, _, _)
DotRow(X, theta, p, j) ==
    IF j = 0 THEN I2F(0)
    ELSE FAdd(DotRow(X, theta, p, j - 1), FMul(At(X, <<p, j - 1>>), theta.data[j]))

Dot(X, theta) ==
    Vec(Tuple([p \in 1..X.shape[1] |-> DotRow(X, theta, p - 1, X.shape[2])]))

\* np.exp(np.log(est) + bias + np.dot(X, theta))
ExpLinear(est, bias, X, theta) ==
    Map2(bias, Dot(X, theta),
         LAMBDA b, t : Exp(LAdd(LAdd(Log(Pos(est, I2F(0))), b), t)))

\* the odds of expit(logit(est) + bias + np.dot(X, theta))
OddsLinear(est, bias, X, theta) ==
    ExpLinear(FDiv(est, FSub(I2F(1), est)), bias, X, theta)

\* jax.vmap over the leading axis: the results stacked
RECURSIVE StackData(_, _)
StackData(f, n) == IF n = 0 THEN <<>> ELSE StackData(f, n - 1) \o f[n].data

Stack(f0, n) == Let(f0, LAMBDA f : [shape |-> <<n>> \o f[1].shape, data |-> StackData(f, n)])

\* jax.vmap(apply_model)(x0, beta, sigma, gamma)
VmapRun(T, x0, beta, sigma, gamma) ==
    Stack(Tuple([p \in 1..x0.shape[1] |->
                   SEIRModel_run(T, Index(x0, 0, p - 1), Index(beta, 0, p - 1),
                                 Index(sigma, 0, p - 1), Index(gamma, 0, p - 1))]),
          x0.shape[1])

\* jax.vmap(SEIRModel.seed)(N, I0, E0)
VmapSeed(N, I0, E0) ==
    Stack(Tuple([p \in 1..Size(N) |-> SEIRModel_seed(N.data[p], I0.data[p], E0.data[p])]),
          Size(N))

SEIR_dynamics_hierarchical(tr, seed, T, params, x0, obs, suffix) ==
    Let(Sample(tr, seed, SiteName("beta", suffix),
               ExponentialRandomWalk(NewAxis(params.beta0, 1), params.rw_scale,
                                     Item(params.drift), WalkSteps(T)),
               <<>>, NoMask), LAMBDA tr1 :
    Let(SliceFrom(VmapRun(T, x0, Last(tr1), params.sigma, params.gamma), 1, 1), LAMBDA x :
    Let(observe(Deterministic(tr1, SiteName("x", suffix), x), seed, SiteName("y", suffix),
                Index(x, 2, 4), NewAxis(params.det_rate, 1), params.det_conc, obs),
        LAMBDA tr3 :
      [tr |-> tr3, beta |-> Last(tr1), x |-> x, y |-> Last(tr3)])))

NormalPrior(sd) == DistNormal(Scalar(I2F(0)), Scalar(sd))

\* the bias and coefficient sites
SEIR_hierarchical_coefficients(seed, d) ==
    Let(Sample(<<>>, seed, "bias_R0", NormalPrior(Norm(1, 10)), <<>>, NoMask), LAMBDA tr1 :
    Let(Sample(tr1, seed, "bias_E_duration", NormalPrior(Norm(5, 100)), <<>>, NoMask),
        LAMBDA tr2 :
    Let(Sample(tr2, seed, "bias_I_duration", NormalPrior(Norm(5, 100)), <<>>, NoMask),
        LAMBDA tr3 :
    Let(Sample(tr3, seed, "bias_det_rate", NormalPrior(Norm(5, 100)), <<>>, NoMask),
        LAMBDA tr4 :
    Let(SampleShaped(tr4, seed, "theta_R0", NormalPrior(Norm(1, 10)), <<>>, NoMask, <<d>>),
        LAMBDA tr5 :
    Let(SampleShaped(tr5, seed, "theta_E_duration", NormalPrior(Norm(5, 100)), <<>>,
                     NoMask, <<d>>), LAMBDA tr6 :
    Let(SampleShaped(tr6, seed, "theta_I_duration", NormalPrior(Norm(5, 100)), <<>>,
                     NoMask, <<d>>), LAMBDA tr7 :
      SampleShaped(tr7, seed, "theta_det_rate", NormalPrior(Norm(5, 100)), <<>>,
                   NoMask, <<d>>))))))))

\* the sites up to the seeded states, and the parameters drawn
SEIR_hierarchical_prior(seed, a) ==
    Let(a.place_covariates, LAMBDA X :
    Let(SEIR_hierarchical_coefficients(seed, X.shape[2]), LAMBDA c :
    Let(Sample(c, seed, "R0",
               GammaMeanVar(ExpLinear(h_R0_est, c[1].value, X, c[5].value), Norm(1, 10)),
               <<>>, NoMask), LAMBDA tr9 :
    Let(Sample(tr9, seed, "E_duration",
               GammaMeanVar(ExpLinear(h_E_duration_est, c[2].value, X, c[6].value),
                            Norm(5, 100)),
               <<>>, NoMask), LAMBDA tr10 :
    Let(Sample(tr10, seed, "I_duration",
               GammaMeanVar(ExpLinear(h_I_duration_est, c[3].value, X, c[7].value),
                            Norm(5, 100)),
               <<>>, NoMask), LAMBDA tr11 :
    Let(Sample(tr11, seed, "det_rate",
               DistBetaOdds(OddsLinear(det_rate_est, c[4].value, X, c[8].value),
                            I2F(det_rate_conc)),
               <<>>, NoMask), LAMBDA tr12 :
    Let(BroadcastTo(Scalar(a.N), <<a.num_places>>), LAMBDA N :
    Let(Sample(tr12, seed, "I0", SeedPrior(N), <<>>, NoMask), LAMBDA tr13 :
    Let(Sample(tr13, seed, "E0", SeedPrior(N), <<>>, NoMask), LAMBDA tr14 :
    Let(VmapSeed(N, Last(tr13), Last(tr14)), LAMBDA x0 :
    Let(Map1(Last(tr11), PInv), LAMBDA gamma :
      [tr |-> Deterministic(tr14, "x0", x0), x0 |-> x0,
       params |-> [beta0 |-> Map2(Last(tr9), gamma, PMul),
                   sigma |-> Map1(Last(tr10), PInv), gamma |-> gamma,
                   det_rate |-> Last(tr12), det_conc |-> Scalar(det_scale),
                   rw_scale |-> rw_scale, drift |-> Scalar(I2F(0))]])))))))))))

\* obs[:, 0] and obs[:, 1:] of an optional array
FirstColumn(obs) == IF obs = <<>> THEN <<>> ELSE <<Index(obs[1], 1, 0)>>

RestColumns(obs) == IF obs = <<>> THEN <<>> ELSE <<SliceFrom(obs[1], 1, 1)>>

\* the seed-time observation and the historical segment, stitched
SEIR_hierarchical_history(seed, a, pr) ==
    Let(observe(pr.tr, seed, "y0", Index(pr.x0, 1, 4), pr.params.det_rate,
                pr.params.det_conc, FirstColumn(a.obs)), LAMBDA tr1 :
    Let(SEIR_dynamics_hierarchical(tr1, seed, a.T, pr.params, pr.x0,
                                   RestColumns(a.obs), ""), LAMBDA h :
      [tr |-> h.tr, beta |-> h.beta, x |-> Concatenate(NewAxis(pr.x0, 1), h.x, 1),
       y |-> Concatenate(NewAxis(Last(tr1), 1), h.y, 1)]))

\* the forecast segment, appended
SEIR_hierarchical_forecast(seed, a, pr, h) ==
    Let(SEIR_dynamics_hierarchical(h.tr, seed, a.T_future + 1,
                                   [pr.params EXCEPT !.beta0 = Index(h.beta, 1, -1)],
                                   Index(h.x, 1, -1), ForecastObs, "_future"),
        LAMBDA f :
      [tr |-> f.tr, beta |-> h.beta, x |-> Concatenate(h.x, f.x, 1),
       y |-> Concatenate(h.y, f.y, 1)])

SEIR_hierarchical(seed, a0) ==
    Let(a0, LAMBDA a :
    Let(SEIR_hierarchical_prior(seed, a), LAMBDA pr :
    Let(SEIR_hierarchical_history(seed, a, pr), LAMBDA h :
    Let(IF a.T_future > 0 THEN SEIR_hierarchical_forecast(seed, a, pr, h) ELSE h,
        LAMBDA r :
      [tr |-> r.tr,
       ret |-> [beta |-> r.beta, x |-> r.x, y |-> r.y,
                det_rate |-> pr.params.det_rate]]))))

(***************************************************************************)
(* plot_samples.  samples maps a site name to that site's values over the  *)
(* draws, stacked on a leading axis.  The result records the error raised  *)
(* (<<>> for none), the series rebuilt from the samples, the draw calls    *)
(* made on the axes in order, and the value returned (<<>> for none).      *)
(***************************************************************************)
SiteNames(tr) == {tr[i].name : i \in 1..Len(tr)}

SiteOf(tr, name) == tr[CHOOSE i \in 1..Len(tr) : tr[i].name = name]

\* the samples dictionary of a model's sites: one run per draw, stacked
SamplesOf(a, draws) ==
    Let(Tuple([s \in 1..draws |-> SEIR_stochastic(s, a).tr]), LAMBDA runs :
      [name \in SiteNames(runs[1]) |->
         Stack(Tuple([s \in 1..draws |-> SiteOf(runs[s], name).value]), draws)])

Has(samples, name) == name \in DOMAIN samples

labels ==
    [S |-> "susceptible", I |-> "infectious", R |-> "removed", C |-> "total infections",
     y |-> "total confirmed", z |-> "total hospitalized"]

\* a layout in place of the error for an unknown model
PlotLayoutFallback(model) ==
    IF model = "SIR" THEN <<[S |-> 0, I |-> 1, R |-> 2, C |-> 3]>>
    ELSE <<[S |-> 0, I |-> 2, R |-> 3, C |-> 4]>>

\* S, I, R, C = ... by model; <<>> where the source raises ValueError("Bad model")
PlotLayout(model) ==
    IF model = "SIR" THEN <<[S |-> 0, I |-> 1, R |-> 2, C |-> 3]>>
    ELSE IF model = "SEIR" THEN <<[S |-> 0, I |-> 2, R |-> 3, C |-> 4]>>
    ELSE <<>>

\* the series with the time-0 value behind the rest
StitchRestFirst(first, rest) == Concatenate(rest, NewAxis(first, 1), 1)

\* np.concatenate((first[:, None], rest), axis=1)
Stitch(first, rest) == Concatenate(NewAxis(first, 1), rest, 1)

\* the series of a field: its "0" value, its base series and, if the samples hold
\* one, its "_future" series
Rebuild(samples, name) ==
    Let(Stitch(samples[name \o "0"], samples[name]), LAMBDA series :
      IF Has(samples, name \o "_future")
      THEN Concatenate(series, samples[name \o "_future"], 1)
      ELSE series)

T_data(samples) ==
    samples["x"].shape[2] + 1
      + (IF Has(samples, "x_future") THEN samples["x_future"].shape[2] ELSE 0)

\* if T is None or T > T_data: T = T_data
PlotT(T, samples) == IF T = <<>> \/ T[1] > T_data(samples) THEN T_data(samples) ELSE T[1]

\* the keys of the fields dictionary
FieldKeys(samples) == {"S", "I", "R", "C"} \cup {k \in {"y", "z"} : Has(samples, k)}

\* fields[k]: x[:, :T, k] for a compartment, obs[:, :T] for an observed series
Field(samples, x, T, layout, k) ==
    IF k \in {"y", "z"} THEN SliceTo(Rebuild(samples, k), 1, T)
    ELSE Index(SliceTo(x, 1, T), 2, layout[k])

\* the values of column t (from 0) of a [draws, T] array, over the draws
Column(v, t) == Tuple([d \in 1..v.shape[1] |-> v.data[(d - 1) * v.shape[2] + t + 1]])

RECURSIVE Insert(_, _)
Insert(v, sorted) ==
    IF sorted = <<>> THEN <<v>>
    ELSE IF FLe(v, Head(sorted)) THEN <<v>> \o sorted
    ELSE <<Head(sorted)>> \o Insert(v, Tail(sorted))

RECURSIVE Sort(_)
Sort(vals) == IF vals = <<>> THEN <<>> ELSE Insert(Head(vals), Sort(Tail(vals)))

\* np.percentile(vals, q): linear interpolation between the order statistics
Percentile(vals, q) ==
    Let(Sort(vals), LAMBDA sorted :
    Let(Norm(q * (Len(sorted) - 1), 100), LAMBDA pos :
    Let(FFloor(pos), LAMBDA lo :
      IF lo + 1 >= Len(sorted) THEN sorted[Len(sorted)]
      ELSE FAdd(sorted[lo + 1],
                FMul(FSub(pos, I2F(lo)), FSub(sorted[lo + 2], sorted[lo + 1]))))))

\* np.median over the draws
Median(vals) == Percentile(vals, 50)

\* np.mean over the draws
Mean(vals) == FDiv(SumTo(vals, 1, Len(vals)), I2F(Len(vals)))

OverTime(v, stat(_)) == Vec(Tuple([t \in 1..v.shape[2] |-> stat(Column(v, t - 1))]))

RECURSIVE MaxOf(_, _)
MaxOf(least, vals) ==
    IF vals = <<>> THEN least ELSE MaxOf(FMax(least, Head(vals)), Tail(vals))

\* ymax = 10, then np.maximum(ymax, pred_interval[1, :].max()) per field
YMax(fields) ==
    MaxOf(I2F(10),
          Tuple([i \in 1..Len(fields) |->
                   MaxOf(NegInf, OverTime(fields[i].data,
                                          LAMBDA vals : Percentile(vals, 90)).data)]))

\* the draw calls of the default n_samples = 0: the medians, the means, the intervals
Drawn(fields) ==
    Tuple([i \in 1..Len(fields) |->
             [kind |-> "median", label |-> fields[i].label,
              data |-> <<OverTime(fields[i].data, Median)>>]])
    \o Tuple([i \in 1..Len(fields) |->
                [kind |-> "mean", label |-> fields[i].label,
                 data |-> <<OverTime(fields[i].data, Mean)>>]])
    \o Tuple([i \in 1..Len(fields) |->
                [kind |-> "CI", label |-> fields[i].label,
                 data |-> <<OverTime(fields[i].data, LAMBDA vals : Percentile(vals, 10)),
                            OverTime(fields[i].data, LAMBDA vals : Percentile(vals, 90))>>]])

PlotRaised(error) == [raised |-> <<error>>, rebuilt |-> <<>>, drawn |-> <<>>, ret |-> <<>>]

plot_samples(samples, plot_fields, T0, model) ==
    IF PlotLayout(model) = <<>> THEN PlotRaised("ValueError")
    ELSE IF \E i \in 1..Len(plot_fields) : plot_fields[i] \notin FieldKeys(samples)
    THEN PlotRaised("KeyError")
    ELSE
      Let(PlotT(T0, samples), LAMBDA T :
      Let(Rebuild(samples, "x"), LAMBDA x :
      Let(Tuple([i \in 1..Len(plot_fields) |->
                   [label |-> labels[plot_fields[i]],
                    data |-> Field(samples, x, T, PlotLayout(model)[1], plot_fields[i])]]),
          LAMBDA fields :
        [raised |-> <<>>,
         rebuilt |-> <<[k \in {"x"} \cup {k \in {"y", "z"} : Has(samples, k)} |->
                          IF k = "x" THEN x ELSE Rebuild(samples, k)]>>,
         drawn |-> Drawn(fields), ret |-> <<YMax(fields)>>])))

(***************************************************************************)
(* State.                                                                  *)
(*   phase, call, trace, ret: an invocation of a generative model by the   *)
(*     host: the model and its arguments, the sites registered in order,   *)
(*     and the returned tuple;                                             *)
(*   base_trace, base_ret: the same invocation replayed on the same host   *)
(*     values with T_future = 0;                                           *)
(*   obs_phase, obs_call, obs_trace, obs_ret: a call of observe, its       *)
(*     arguments, the sites it registered with the host and what it        *)
(*     returned; alt_obs, alt_trace: the same call repeated with another   *)
(*     observed array;                                                     *)
(*   samples: the samples dictionary the host holds for the invocation;    *)
(*   plot: a call of plot_samples on it, its arguments and its result;     *)
(*   walk: a draw from ExponentialRandomWalk, its arguments, the standard  *)
(*     normal draws z it was made from, and the sequence x drawn.          *)
(***************************************************************************)
VARIABLES phase, call, trace, ret, base_trace, base_ret, samples, plot,
          obs_phase, obs_call, obs_trace, obs_ret, alt_obs, alt_trace,
          walk

main_vars == <<phase, call, trace, ret, base_trace, base_ret, samples, plot>>

observe_vars == <<obs_phase, obs_call, obs_trace, obs_ret, alt_obs, alt_trace>>

vars == <<main_vars, observe_vars, walk>>

MaxLen == 3
NumSeeds == 2
MaxT == 3
MaxTFuture == 2
MaxPlaces == 2
MaxSteps == 3

det_noise_scale_default == Norm(15, 100)

ObsVals == {NaN, PosInf, NegInf, I2F(0), I2F(5)}
LatentVals == {I2F(0), I2F(7)}
DetRates == {Norm(1, 4), Norm(1, 2)}
Populations == {I2F(1000)}
DriftScales == {<<>>, <<Norm(1, 100)>>}
CaseVals == {NaN, I2F(3)}
PlotModels == {"SIR", "SEIR", "SEIRD"}
PlotArgs ==
    {[plot_fields |-> <<"I", "y">>, T |-> <<>>], [plot_fields |-> <<"C", "z">>, T |-> <<2>>]}
WalkLocs == {Pos(I2F(1), I2F(0)), Pos(I2F(2), I2F(0))}
WalkScales == {I2F(0), Norm(1, 100), Norm(1, 10)}
WalkDrifts == {I2F(0), Norm(1, 10)}

\* the shapes observe is called with: a scalar or a vector
ObsShapes == {<<>>} \cup {<<n>> : n \in 1..MaxLen}

ArraysOf(shape, vals) == {[shape |-> shape, data |-> d] : d \in [1..Prod(shape) -> vals]}

Optional(set) == {<<>>} \cup {<<a>> : a \in set}

Latents(shape) == {MkArr(shape, LAMBDA k : FMul(v, I2F(k))) : v \in LatentVals}

\* hospitalization series: absent, complete, or with the first entry missing
HospSeries(T) ==
    {<<>>, <<MkArr(<<T>>, LAMBDA t : I2F(1))>>,
     <<MkArr(<<T>>, LAMBDA t : IF t = 1 THEN NaN ELSE I2F(1))>>}

\* per-region case series: absent, complete, or with one entry missing per region
PlaceSeries(places, T) ==
    {<<>>, <<MkArr(<<places, T>>, LAMBDA k : I2F(3))>>,
     <<MkArr(<<places, T>>, LAMBDA k : IF k % T = 1 THEN NaN ELSE I2F(3))>>}

\* one covariate per region: 0, 1, ...
Covariates(places) == MkArr(<<places, 1>>, LAMBDA k : I2F(k - 1))

\* two observed arrays agree on their finite entries
AgreeOnFinite(a, b) ==
    /\ a.shape = b.shape
    /\ \A k \in 1..Size(a) :
         /\ IsFinite(a.data[k]) <=> IsFinite(b.data[k])
         /\ IsFinite(a.data[k]) => a.data[k] = b.data[k]

MainIdle ==
    /\ phase = "idle"
    /\ call = <<>>
    /\ trace = <<>>
    /\ ret = <<>>
    /\ base_trace = <<>>
    /\ base_ret = <<>>
    /\ samples = <<>>
    /\ plot = <<>>

ObserveIdle ==
    /\ obs_phase = "idle"
    /\ obs_call = <<>>
    /\ obs_trace = <<>>
    /\ obs_ret = <<>>
    /\ alt_obs = <<>>
    /\ alt_trace = <<>>

Init == MainIdle /\ ObserveIdle /\ walk = <<>>

CallStochastic ==
    /\ phase = "idle"
    /\ \E T \in 2..MaxT, T_future \in 0..MaxTFuture, N \in Populations,
          use_hosp \in BOOLEAN, drift_scale \in DriftScales, seed \in 1..NumSeeds :
       \E obs \in Optional(ArraysOf(<<T>>, CaseVals)), hosp \in HospSeries(T) :
         LET a == [T |-> T, N |-> N, T_future |-> T_future,
                   det_noise_scale |-> det_noise_scale_default,
                   drift_scale |-> drift_scale, obs |-> obs,
                   use_hosp |-> use_hosp, hosp |-> hosp]
         IN  \E r \in {SEIR_stochastic(seed, a)} :
               /\ call' = [model |-> "SEIR_stochastic", seed |-> seed, a |-> a]
               /\ trace' = r.tr
               /\ ret' = r.ret
    /\ phase' = "called"
    /\ UNCHANGED <<base_trace, base_ret, samples, plot, observe_vars, walk>>

\* the invocation replayed without its forecast, on the same host values
ReplayNoForecast ==
    /\ phase = "called"
    /\ call.model = "SEIR_stochastic"
    /\ call.a.T_future > 0
    /\ \E r \in {SEIR_stochastic(call.seed, [call.a EXCEPT !.T_future = 0])} :
         /\ base_trace' = r.tr
         /\ base_ret' = r.ret
    /\ phase' = "replayed"
    /\ UNCHANGED <<call, trace, ret, samples, plot, observe_vars, walk>>

CallHierarchical ==
    /\ phase = "idle"
    /\ \E num_places \in 1..MaxPlaces, T \in 2..MaxT, T_future \in 0..MaxTFuture,
          N \in Populations, seed \in 1..NumSeeds :
       \E obs \in PlaceSeries(num_places, T) :
         LET a == [num_places |-> num_places, T |-> T, N |-> N, T_future |-> T_future,
                   place_covariates |-> Covariates(num_places), obs |-> obs]
         IN  \E r \in {SEIR_hierarchical(seed, a)} :
               /\ call' = [model |-> "SEIR_hierarchical", seed |-> seed, a |-> a]
               /\ trace' = r.tr
               /\ ret' = r.ret
    /\ phase' = "called"
    /\ UNCHANGED <<base_trace, base_ret, samples, plot, observe_vars, walk>>

\* the host holds the samples dictionary of the invocation's model, one row per
\* draw, the invocation being the first
DrawSamples ==
    /\ phase = "called"
    /\ call.model = "SEIR_stochastic"
    /\ call.seed = 1
    /\ \E r \in {SamplesOf(call.a, NumSeeds)} : samples' = r
    /\ phase' = "sampled"
    /\ UNCHANGED <<call, trace, ret, base_trace, base_ret, plot, observe_vars, walk>>

PlotSamples ==
    /\ phase = "sampled"
    /\ \E model \in PlotModels, args \in PlotArgs :
       \E r \in {plot_samples(samples, args.plot_fields, args.T, model)} :
         plot' = [model |-> model, plot_fields |-> args.plot_fields, T |-> args.T,
                  raised |-> r.raised, rebuilt |-> r.rebuilt, drawn |-> r.drawn,
                  ret |-> r.ret]
    /\ phase' = "plotted"
    /\ UNCHANGED <<call, trace, ret, base_trace, base_ret, samples, observe_vars, walk>>

Next ==
    \/ CallStochastic
    \/ ReplayNoForecast
    \/ CallHierarchical
    \/ DrawSamples
    \/ PlotSamples

Spec == Init /\ [][Next]_vars

ObserveCall ==
    /\ obs_phase = "idle"
    /\ \E shape \in ObsShapes, det_rate \in DetRates :
       \E latent \in Latents(shape), obs \in Optional(ArraysOf(shape, ObsVals)) :
       \E seed \in IF obs = <<>> THEN 1..NumSeeds ELSE {1} :
       \E name \in {IF shape = <<>> THEN "y0" ELSE "y"} :
       \E tr \in {observe(<<>>, seed, name, latent, Scalar(det_rate),
                          Scalar(det_noise_scale_default), obs)} :
         /\ obs_call' = [name |-> name, latent |-> latent, det_rate |-> det_rate,
                         seed |-> seed, obs |-> obs]
         /\ obs_trace' = tr
         /\ obs_ret' = <<Last(tr)>>
    /\ obs_phase' = "called"
    /\ UNCHANGED <<alt_obs, alt_trace, main_vars, walk>>

\* the same call, with an observed array that agrees with the first on its finite entries
ObserveAgain ==
    /\ obs_phase = "called"
    /\ obs_call.obs # <<>>
    /\ \E a \in ArraysOf(obs_call.latent.shape, ObsVals) :
         /\ AgreeOnFinite(obs_call.obs[1], a)
         /\ alt_obs' = <<a>>
         /\ alt_trace' = observe(<<>>, obs_call.seed, obs_call.name, obs_call.latent,
                                 Scalar(obs_call.det_rate),
                                 Scalar(det_noise_scale_default), <<a>>)
    /\ obs_phase' = "repeated"
    /\ UNCHANGED <<obs_call, obs_trace, obs_ret, main_vars, walk>>

ObserveNext == ObserveCall \/ ObserveAgain

SpecObserve == Init /\ [][ObserveNext]_vars

\* a sequence is drawn from ExponentialRandomWalk(loc, scale, drift, num_steps),
\* the host supplying the standard normal draws z
DrawWalk ==
    /\ walk = <<>>
    /\ \E loc \in WalkLocs, scale \in WalkScales, drift \in WalkDrifts,
          num_steps \in 1..MaxSteps :
       \E z \in [1..num_steps -> {-1, 0, 1}] :
       \E x \in {HostDraw(ExponentialRandomWalk(Scalar(loc), scale, drift, num_steps),
                          MkArr(<<num_steps>>, LAMBDA k : I2F(z[k])))} :
         walk' = <<[loc |-> loc, scale |-> scale, drift |-> drift,
                    num_steps |-> num_steps, z |-> z, x |-> x.data]>>
    /\ UNCHANGED <<main_vars, observe_vars>>

WalkNext == DrawWalk

SpecWalk == Init /\ [][WalkNext]_vars

(***************************************************************************)
(* Properties of observe, under SpecObserve.                               *)
(***************************************************************************)
NonFinite == {NaN, PosInf, NegInf}

ObsSite == obs_trace[Len(obs_trace)]

AltSite == alt_trace[Len(alt_trace)]

\* C3: when observe is given an observed array, the mask handed to the sampling
\* host is TRUE at exactly the indices whose observed entry is finite, and the
\* score of the observation site is the same for two observed arrays that agree
\* on their finite entries.
C3_MaskIsFinitenessAndScoreIgnoresFill ==
    /\ (obs_phase # "idle" /\ obs_call.obs # <<>>) =>
          /\ ObsSite.mask.shape = obs_call.obs[1].shape
          /\ \A k \in 1..Size(obs_call.obs[1]) :
               ObsSite.mask.data[k] <=> (obs_call.obs[1].data[k] \notin NonFinite)
    /\ obs_phase = "repeated" =>
          /\ \A k \in 1..Size(alt_obs[1]) :
               AltSite.mask.data[k] <=> (alt_obs[1].data[k] \notin NonFinite)
          /\ SiteScore(AltSite) = SiteScore(ObsSite)

\* observe was called twice on arrays that differ, each with a finite and a
\* non-finite entry, and an element was scored
C3_Witness ==
    /\ obs_phase = "repeated"
    /\ alt_obs # obs_call.obs
    /\ \E j, k \in 1..Size(alt_obs[1]) :
         /\ alt_obs[1].data[j] \in NonFinite
         /\ alt_obs[1].data[k] \notin NonFinite
         /\ SiteScore(AltSite).data[k].on
         /\ ~SiteScore(AltSite).data[j].on

\* the sites a call registered: "mean_" + name, deterministic, then name, sampled,
\* the mean being det_rate * (latent + 0.5 / det_rate) at every index
RegistersMeanAndSite(tr, c) ==
    /\ Len(tr) = 2
    /\ tr[1].name = "mean_" \o c.name
    /\ tr[1].type = "deterministic"
    /\ tr[2].name = c.name
    /\ tr[2].type = "sample"
    /\ tr[1].value.shape = c.latent.shape
    /\ \A k \in 1..Size(c.latent) :
         tr[1].value.data[k] =
           FMul(c.det_rate, FAdd(c.latent.data[k], FDiv(Norm(1, 2), c.det_rate)))

\* C4: every call of observe registers exactly two quantities with the sampling
\* host, the deterministic "mean_" + name and then the observation variable name,
\* and the recorded mean is det_rate * (latent + 0.5 / det_rate) at every index,
\* whatever obs is.
C4_RegistersMeanAndSite ==
    /\ obs_phase # "idle" => RegistersMeanAndSite(obs_trace, obs_call)
    /\ obs_phase = "repeated" => RegistersMeanAndSite(alt_trace, obs_call)

\* a call on a vector whose observed array is partly non-finite
C4_Witness ==
    /\ obs_phase = "called"
    /\ obs_call.obs # <<>>
    /\ Len(obs_trace) = 2
    /\ \E j, k \in 1..Size(obs_call.latent) :
         /\ obs_call.obs[1].data[j] = NaN
         /\ obs_call.obs[1].data[k] \notin NonFinite
         /\ obs_call.latent.data[k] # I2F(0)

(***************************************************************************)
(* Properties of the generative models and of plot_samples, under Spec.    *)
(***************************************************************************)
Stochastic == phase # "idle" /\ call.model = "SEIR_stochastic"

Hierarchical == phase # "idle" /\ call.model = "SEIR_hierarchical"

TotalT == call.a.T + call.a.T_future

\* an array of the given shape with every entry present
HasShape(a, shape) == a.shape = shape /\ Len(a.data) = Prod(shape)

\* C1: SEIR_stochastic returns a trajectory, a confirmed-case sequence and a
\* hospitalization sequence of exactly T + T_future entries each (T when
\* T_future = 0), and SEIR_hierarchical returns per-region trajectories and
\* confirmed-case sequences of exactly T + T_future time entries per region.
C1_SeriesHaveTPlusTFutureEntries ==
    /\ Stochastic =>
          /\ HasShape(ret.x, <<TotalT, 5>>)
          /\ HasShape(ret.y, <<TotalT>>)
          /\ HasShape(ret.z, <<TotalT>>)
    /\ phase = "replayed" =>
          /\ HasShape(base_ret.x, <<call.a.T, 5>>)
          /\ HasShape(base_ret.y, <<call.a.T>>)
          /\ HasShape(base_ret.z, <<call.a.T>>)
    /\ Hierarchical =>
          /\ HasShape(ret.x, <<call.a.num_places, TotalT, 5>>)
          /\ HasShape(ret.y, <<call.a.num_places, TotalT>>)

\* a single-region invocation with a history longer than the minimum, a forecast
\* and the hospitalization sub-model
C1_Witness ==
    /\ Stochastic
    /\ call.a.T > 2
    /\ call.a.T_future > 1
    /\ call.a.use_hosp
    /\ Size(ret.y) = TotalT

\* C2: an invocation of SEIR_stochastic with T_future > 0 and the same invocation
\* with T_future = 0, on the same host values, register the same historical
\* sites (names and values, in order) and return the same first T entries of the
\* trajectory, the confirmed-case and the hospitalization sequence; what the
\* forecast adds comes after, under "_future" names.
C2_ForecastOnlyAppends ==
    phase = "replayed" =>
       /\ Len(base_trace) <= Len(trace)
       /\ \A i \in 1..Len(base_trace) :
            /\ base_trace[i].name = trace[i].name
            /\ base_trace[i].type = trace[i].type
            /\ base_trace[i].value = trace[i].value
       /\ \A i \in (Len(base_trace) + 1)..Len(trace) :
            trace[i].name \in {n \o "_future" : n \in {"beta", "x", "mean_y", "y",
                                                       "mean_z", "z"}}
       /\ SliceTo(ret.x, 0, call.a.T) = base_ret.x
       /\ SliceTo(ret.y, 0, call.a.T) = base_ret.y
       /\ SliceTo(ret.z, 0, call.a.T) = base_ret.z

\* a replayed invocation that had observations, the hospitalization sub-model and
\* a forecast of several steps
C2_Witness ==
    /\ phase = "replayed"
    /\ call.a.obs # <<>>
    /\ call.a.use_hosp
    /\ Len(trace) = Len(base_trace) + 6
    /\ Size(ret.y) > Size(base_ret.y) + 1

\* the trace entries field + "0", field and, if registered, field + "_future",
\* concatenated in that order along the time axis
TraceSeries(tr, field, axis) ==
    Let(Concatenate(NewAxis(SiteOf(tr, field \o "0").value, axis),
                    SiteOf(tr, field).value, axis), LAMBDA series :
      IF (field \o "_future") \in SiteNames(tr)
      THEN Concatenate(series, SiteOf(tr, field \o "_future").value, axis)
      ELSE series)

\* the sites registered once, and the fields registered per segment
ParameterSites ==
    {"I0", "E0", "sigma", "gamma", "beta0", "det_rate", "hosp_rate", "drift"}

SegmentFields == {"beta", "x", "mean_y", "y", "mean_z", "z"}

Reconstructs(fields, axis) ==
    \A f \in fields :
       f \in SiteNames(trace) =>
          /\ (f \o "0") \in SiteNames(trace)
          /\ (f \o "_future") \in SiteNames(trace) <=> call.a.T_future > 0
          /\ TraceSeries(trace, f, axis) = ret[f]

\* C5: for each field f of x, y, z that the model registers, the trace entries
\* f + "0", f and (when T_future > 0) f + "_future", concatenated in that order,
\* are exactly the series the model returns for f; no site carries another
\* suffix; and plot_samples rebuilds its series in the same order, each of
\* T + T_future time entries before the cut to the plotted length.
C5_SegmentsReconstructSeries ==
    /\ Stochastic =>
          /\ Reconstructs({"x", "y", "z"}, 0)
          /\ SiteNames(trace) \subseteq
               ParameterSites \cup {f \o suffix : f \in SegmentFields,
                                                  suffix \in {"", "0", "_future"}}
    /\ Hierarchical => Reconstructs({"x", "y"}, 1)
    /\ (phase = "plotted" /\ plot.raised = <<>>) =>
          \A f \in DOMAIN plot.rebuilt[1] :
             /\ plot.rebuilt[1][f].shape[2] = TotalT
             /\ Index(plot.rebuilt[1][f], 0, 0) = ret[f]

\* a plot of an invocation with a forecast and all three fields registered
C5_Witness ==
    /\ phase = "plotted"
    /\ plot.raised = <<>>
    /\ call.a.T_future > 0
    /\ DOMAIN plot.rebuilt[1] = {"x", "y", "z"}
    /\ "z_future" \in SiteNames(trace)

\* cumulative cases, the last column of row r (from 0) of the trajectory
Cumulative(x, r) == At(x, <<r, 4>>)

\* C6: in every invocation of SEIR_stochastic the cumulative-cases column of the
\* stitched trajectory is non-decreasing at every consecutive pair of rows, the
\* seam after the seed row and the seam before the forecast rows included.
C6_CumulativeCasesNonDecreasing ==
    Stochastic =>
       \A r \in 0..(ret.x.shape[1] - 2) :
          FLe(Cumulative(ret.x, r), Cumulative(ret.x, r + 1))

\* a trajectory with a forecast whose cumulative cases rise across both seams
C6_Witness ==
    /\ Stochastic
    /\ call.a.T_future > 0
    /\ Cumulative(ret.x, 0) # Cumulative(ret.x, 1)
    /\ Cumulative(ret.x, call.a.T - 1) # Cumulative(ret.x, call.a.T)
    /\ ret.x.shape[1] = TotalT

\* the random walk of a site has no drift: its log-domain location is constant
DriftFree(site) ==
    \A k \in 1..Size(site.fn.log_loc) : site.fn.log_loc.data[k] = site.fn.log_loc.data[1]

\* C7: SEIR_stochastic registers a site "drift" if and only if drift_scale is
\* given, and otherwise the drift of the historical and of the forecast random
\* walk is 0; it registers "hosp_rate", "z0", "z" and "z_future" only if
\* use_hosp holds, and otherwise the hospitalization rate is 0 and every entry
\* of the returned hospitalization sequence is 0.
C7_TogglesFixTheSites ==
    Stochastic =>
       /\ "drift" \in SiteNames(trace) <=> call.a.drift_scale # <<>>
       /\ call.a.drift_scale = <<>> =>
            \A i \in 1..Len(trace) :
               trace[i].name \in {"beta", "beta_future"} => DriftFree(trace[i])
       /\ SiteNames(trace) \cap {"hosp_rate", "z0", "z", "z_future"} # {} => call.a.use_hosp
       /\ ~call.a.use_hosp =>
            /\ ret.hosp_rate = Scalar(I2F(0))
            /\ \A k \in 1..Size(ret.z) : ret.z.data[k] = I2F(0)

\* an invocation with a drift prior, a forecast and no hospitalization sub-model,
\* whose confirmed-case sequence is not all zero
C7_Witness ==
    /\ Stochastic
    /\ call.a.drift_scale # <<>>
    /\ ~call.a.use_hosp
    /\ call.a.T_future > 0
    /\ "drift" \in SiteNames(trace)
    /\ \E k \in 1..Size(ret.y) : ret.y.data[k] # I2F(0)

\* C9: plot_samples called with a model other than 'SIR' and 'SEIR' raises an
\* error, returns nothing and draws nothing.
C9_UnknownModelRaises ==
    (phase = "plotted" /\ plot.model \notin {"SIR", "SEIR"}) =>
       /\ plot.raised = <<"ValueError">>
       /\ plot.ret = <<>>
       /\ plot.drawn = <<>>

\* a plot asked for an unknown model, on fields the samples hold, has raised
C9_Witness ==
    /\ phase = "plotted"
    /\ plot.model = "SEIRD"
    /\ plot.plot_fields = <<"I", "y">>
    /\ plot.raised # <<>>

\* site records the observed value v at element k (from 1) against the latent
\* value c: it is masked exactly when v is not finite, holds v + 0.5 when v is
\* finite, and its mean is det_rate * (c + 0.5 / det_rate)
Conditions(site, k, v, c, det_rate) ==
    /\ site.is_observed
    /\ site.mask.data[k] <=> (v \notin NonFinite)
    /\ (v \notin NonFinite) => site.value.data[k] = FAdd(v, Norm(1, 2))
    /\ site.fn.loc.data[k] = FMul(det_rate, FAdd(c, FDiv(Norm(1, 2), det_rate)))

\* C10: when SEIR_stochastic is given confirmed cases obs of length T, obs[0]
\* conditions "y0" against the seeded state and obs[t], 1 <= t <= T - 1,
\* conditions entry t - 1 of "y" against trajectory row t; the sites of the
\* forecast are never conditioned on an observation.
C10_ObservationsMeetTheirTimeStep ==
    Stochastic =>
       /\ call.a.obs # <<>> =>
            /\ Conditions(SiteOf(trace, "y0"), 1, call.a.obs[1].data[1],
                          Cumulative(ret.x, 0), Item(ret.det_rate))
            /\ Size(SiteOf(trace, "y").value) = call.a.T - 1
            /\ \A t \in 1..(call.a.T - 1) :
                 Conditions(SiteOf(trace, "y"), t, call.a.obs[1].data[t + 1],
                            Cumulative(ret.x, t), Item(ret.det_rate))
       /\ \A i \in 1..Len(trace) :
            trace[i].name \in {"beta_future", "y_future", "z_future"} =>
               ~trace[i].is_observed

\* an invocation with observations that differ from one step to the next, the
\* hospitalization series given, and a forecast
C10_Witness ==
    /\ Stochastic
    /\ call.a.obs # <<>>
    /\ call.a.use_hosp
    /\ call.a.hosp # <<>>
    /\ call.a.T_future > 0
    /\ call.a.obs[1].data[1] # call.a.obs[1].data[2]
    /\ SiteOf(trace, "y").is_observed

\* no two entries of a trace carry the same name
DistinctNames(tr) ==
    \A i, j \in 1..Len(tr) : i # j => tr[i].name # tr[j].name

\* C11: within one invocation of SEIR_stochastic or SEIR_hierarchical, whatever
\* use_hosp, drift_scale and T_future are, no two sample or deterministic sites
\* are registered under the same name: the seed-time, historical and forecast
\* segments use pairwise distinct site names.
C11_SiteNamesPairwiseDistinct ==
    /\ phase # "idle" =>
         /\ \A i \in 1..Len(trace) : trace[i].type \in {"sample", "deterministic"}
         /\ DistinctNames(trace)
    /\ phase = "replayed" => DistinctNames(base_trace)

\* an invocation of SEIR_stochastic with the drift prior, the hospitalization
\* sub-model and a forecast, which registers every site the model has: 13 at
\* seed time, 6 over the history and 6 over the forecast
C11_Witness ==
    /\ Stochastic
    /\ call.a.use_hosp
    /\ call.a.drift_scale # <<>>
    /\ call.a.T_future > 0
    /\ Len(trace) = 25
    /\ {"x0", "mean_y0", "y0", "mean_z0", "z0", "beta", "x", "mean_y", "y", "mean_z", "z",
        "beta_future", "x_future", "mean_y_future", "y_future", "mean_z_future",
        "z_future"} \subseteq SiteNames(trace)

(***************************************************************************)
(* Properties of ExponentialRandomWalk, under SpecWalk.                    *)
(***************************************************************************)
\* exp(drift + eps_t), the innovation eps_t being scale times the t-th standard draw
StepFactor(w, t) == Pos(I2F(1), FAdd(w.drift, FMul(w.scale, I2F(w.z[t]))))

\* C8: a sequence x_0 .. x_{num_steps - 1} drawn from ExponentialRandomWalk has
\* x_0 = loc and x_t = x_{t-1} * exp(drift + eps_t) for every t >= 1.
C8_WalkStartsAtLoc ==
    walk # <<>> =>
       /\ walk[1].x[1] = walk[1].loc
       /\ \A t \in 2..walk[1].num_steps :
            walk[1].x[t] = PMul(walk[1].x[t - 1], StepFactor(walk[1], t))

\* what the draw does: the first element already carries an innovation,
\* x_0 = loc * exp(eps_0), and every later step multiplies by exp(drift + eps_t)
C8_FirstElementCarriesInnovation ==
    walk # <<>> =>
       /\ walk[1].x[1] = PMul(walk[1].loc, Pos(I2F(1), FMul(walk[1].scale, I2F(walk[1].z[1]))))
       /\ \A t \in 2..walk[1].num_steps :
            walk[1].x[t] = PMul(walk[1].x[t - 1], StepFactor(walk[1], t))

\* a one-step draw whose only element is not loc
C8_Witness ==
    /\ walk # <<>>
    /\ walk[1].num_steps = 1
    /\ walk[1].drift = I2F(0)
    /\ walk[1].x[1] # walk[1].loc

====
